---- MODULE Spec2Model ----
(***************************************************************************)
(* OAuth token lifecycle of the Clover client: the credential store, the   *)
(* authorization flow with its callback listener (oauth-v2.ts) and the     *)
(* credential-aware API client (clover-client.ts).                         *)
(*                                                                         *)
(* One action is one run-to-completion segment of the single JavaScript    *)
(* thread: a call up to its first pending HTTP request, or the arrival of  *)
(* a response up to the next pending request or the end of the handler.    *)
(*                                                                         *)
(* Encoding of JavaScript values:                                          *)
(*   - null and undefined strings are Absent, the empty string is Empty;   *)
(*     both are falsy, as in the code's `!x` and `x || y` tests;           *)
(*   - a null, undefined or 0 timestamp is 0 (falsy in the same tests);    *)
(*   - object identities (the promise callbacks of a flow, the http server *)
(*     created by app.listen, the random state token) are the number of    *)
(*     the flow that created them, 0 being null or "".                     *)
(***************************************************************************)
EXTENDS Integers, Sequences, FiniteSets, TLC

\* ------------------------------------------------------------------ bounds
MaxTime == 2

\* ------------------------------------------------------- program constants
DefaultAccessTtl == 3600
DefaultRefreshTtl == 2592000

\* ------------------------------------------------------------------ values
Absent == "<absent>"
Empty == ""

Falsy(x) == x \in {Absent, Empty}

OrElse(x, y) == IF Falsy(x) THEN y ELSE x

NumOrElse(x, y) == IF x = 0 THEN y ELSE x

\* bodies a 2xx answer of /oauth/v2/token (a) or /oauth/v2/refresh (b) can
\* carry: every field can be missing; the timestamp 2 is reached by the clock
V2Bodies(a, r) ==
  [access_token: {a, Absent},
   refresh_token: {r, Absent},
   merchant_id: {"M1", Absent},
   access_token_expiry: {0, 2},
   refresh_token_expiry: {0, 200}]

\* bodies a 2xx answer of the legacy /oauth/token can carry
V1Bodies(a, r) ==
  [access_token: {a, Absent},
   refresh_token: {r, Absent},
   merchant_id: {"M1", Absent},
   expires_in: {0, 1}]

ExchangeV2Bodies == V2Bodies("A1", "R1")

ExchangeV1Bodies == V1Bodies("A1", "R1")

RefreshV2Bodies == V2Bodies("A2", "R2")

RefreshV1Bodies == V1Bodies("A2", "R2")

\* the code query parameter of a callback request that has one
CallbackCodes == {"c1"}

\* the merchant_id query parameter of a callback request
CallbackMerchantIds == {"M2", Absent}

\* the state query parameter of a callback request, relative to this.state
CallbackStates == {"match", "mismatch", "absent"}

NoTokens ==
  [access_token |-> Absent, refresh_token |-> Absent, merchant_id |-> Absent,
   access_token_expiry |-> 0, refresh_token_expiry |-> 0]

NoV1Data ==
  [access_token |-> Absent, refresh_token |-> Absent, merchant_id |-> Absent,
   expires_in |-> 0]

VARIABLES
  now,            \* Math.floor(Date.now() / 1000)
  currentTokens,  \* the module-level credential store
  envFile,        \* the .env file in the working directory
  server,         \* this.server
  state,          \* this.state
  promiseResolve, \* this.promiseResolve
  promiseReject,  \* this.promiseReject
  listening,      \* the http servers that accept connections
  timers,         \* pending setTimeout(closeServer, 3000) timers
  closing,        \* the http servers closed but with their 'close' event
                  \* (which runs every callback given to close) to come
  nextSession,    \* number of the next flow that is accepted
  launches,       \* the flows whose browser launch (exec) has not reported
  outcomes,       \* per flow: what its promise callbacks were called with
  tasks,          \* the asynchronous activations in progress
  last            \* the activation that finished in the last step, with
                  \* its result; IdleTask when the step finished none

flowVars == <<server, state, promiseResolve, promiseReject, listening,
              timers, closing, nextSession, launches, outcomes>>

storeVars == <<currentTokens, envFile>>

vars == <<now, currentTokens, envFile, server, state, promiseResolve,
          promiseReject, listening, timers, closing, nextSession, launches,
          outcomes, tasks, last>>

\* ------------------------------------------------------- credential store
InitialTokens ==
  [accessToken |-> Absent, refreshToken |-> Absent, merchantId |-> Absent,
   accessTokenExpiry |-> 0, refreshTokenExpiry |-> 0]

GetTokens == currentTokens

\* the .env file: its two keys when their lines exist, and the other lines
NoFile == [exists |-> FALSE, hasKeys |-> FALSE, apiKey |-> Empty,
           merchantId |-> Empty, other |-> Empty]

EnvFiles ==
  {NoFile,
   [exists |-> TRUE, hasKeys |-> TRUE, apiKey |-> "A0",
    merchantId |-> "M0", other |-> "X"],
   [exists |-> TRUE, hasKeys |-> FALSE, apiKey |-> Empty,
    merchantId |-> Empty, other |-> "X"]}

\* updateEnvFile: the file after the call, given the store it mirrors;
\* writeOk = FALSE is a read or write that throws (caught and logged)
UpdateEnvFile(file, tokens, writeOk) ==
  IF ~file.exists \/ ~writeOk THEN file
  ELSE IF ~file.hasKeys THEN file
  ELSE [file EXCEPT
          !.apiKey = IF Falsy(tokens.accessToken) THEN @
                     ELSE tokens.accessToken,
          !.merchantId = IF Falsy(tokens.merchantId) THEN @
                         ELSE tokens.merchantId]

StoredTokens(t) ==
  [accessToken |-> t.access_token, refreshToken |-> t.refresh_token,
   merchantId |-> t.merchant_id, accessTokenExpiry |-> t.access_token_expiry,
   refreshTokenExpiry |-> t.refresh_token_expiry]

SetTokens(t, writeOk) ==
  /\ currentTokens' = StoredTokens(t)
  /\ envFile' = UpdateEnvFile(envFile, StoredTokens(t), writeOk)

\* hasValidTokens that takes a token for valid at the second it expires
HasValidTokensAtStrict(tokens, time) ==
  IF Falsy(tokens.accessToken) \/ Falsy(tokens.merchantId) THEN FALSE
  ELSE IF tokens.accessTokenExpiry # 0 /\ time > tokens.accessTokenExpiry
       THEN FALSE
       ELSE TRUE

HasValidTokensAt(tokens, time) ==
  IF Falsy(tokens.accessToken) \/ Falsy(tokens.merchantId) THEN FALSE
  ELSE IF tokens.accessTokenExpiry # 0 /\ time >= tokens.accessTokenExpiry
       THEN FALSE
       ELSE TRUE

HasValidTokens == HasValidTokensAt(currentTokens, now)

\* ------------------------------------------------------------------ tasks
\* A task is one asynchronous activation: the handling of one callback
\* request, one data-access call, one ensureValidToken call or one
\* refreshAccessToken call.  pc is the request it awaits; log is the list of
\* HTTP requests it has sent, each with the credential it carries (the code,
\* the refresh token or the bearer token); resp* is the last 2xx body it
\* received; delivered is the record its resolvePromise call handed to the
\* flow caller; status is the last HTTP status it sent or received.
IdleTask ==
  [kind |-> "idle", pc |-> "idle", ctx |-> "", retry |-> FALSE, log |-> <<>>,
   result |-> "", value |-> Absent, status |-> 0, code |-> Absent,
   cbMid |-> Absent, cbState |-> "", rsRefreshes |-> 0, retries |-> 0,
   respTier |-> "none", respV2 |-> NoTokens, respV1 |-> NoV1Data,
   delivered |-> NoTokens]

TaskIds == DOMAIN tasks

\* the list without its element i
RemoveAt(seq, i) == SubSeq(seq, 1, i - 1) \o SubSeq(seq, i + 1, Len(seq))

\* a new activation ran up to `task`: its first pending request, or its end
Begin(task) ==
  IF task.pc = "done"
  THEN last' = task /\ UNCHANGED tasks
  ELSE tasks' = Append(tasks, task) /\ last' = IdleTask

\* activation t ran up to `task`: its next pending request, or its end
Advance(t, task) ==
  IF task.pc = "done"
  THEN last' = task /\ tasks' = RemoveAt(tasks, t)
  ELSE tasks' = [tasks EXCEPT ![t] = task] /\ last' = IdleTask

Done(task, res) == [task EXCEPT !.pc = "done", !.ctx = "", !.result = res]

Request(endpoint, credential) == [to |-> endpoint, cred |-> credential]

Sent(task, endpoint, credential) ==
  [task EXCEPT !.log = Append(@, Request(endpoint, credential))]

\* ------------------------------------------------- the completion signal
Outcome(k, e) == [kind |-> k, error |-> e]

\* resolvePromise that forgets to clear promiseReject
ResolvePromiseKeepsReject(value) ==
  IF promiseResolve # 0
  THEN /\ outcomes' = [outcomes EXCEPT ![promiseResolve] =
                         Append(@, Outcome("success", ""))]
       /\ promiseResolve' = 0
       /\ UNCHANGED promiseReject
  ELSE UNCHANGED <<outcomes, promiseResolve, promiseReject>>

\* resolvePromise
ResolvePromise(value) ==
  IF promiseResolve # 0
  THEN /\ outcomes' = [outcomes EXCEPT ![promiseResolve] =
                         Append(@, Outcome("success", ""))]
       /\ promiseResolve' = 0
       /\ promiseReject' = 0
  ELSE UNCHANGED <<outcomes, promiseResolve, promiseReject>>

\* rejectPromise
RejectPromise(reason) ==
  IF promiseReject # 0
  THEN /\ outcomes' = [outcomes EXCEPT ![promiseReject] =
                         Append(@, Outcome("failure", reason))]
       /\ promiseReject' = 0
       /\ promiseResolve' = 0
  ELSE UNCHANGED <<outcomes, promiseResolve, promiseReject>>

\* --------------------------------------------------- token normalisation
\* a conversion that copies the refresh token and the lifetime as received
NormalizeV1ExchangeNoDefaults(v1Data, time) ==
  [access_token |-> v1Data.access_token,
   refresh_token |-> v1Data.refresh_token,
   merchant_id |-> v1Data.merchant_id,
   access_token_expiry |-> time + v1Data.expires_in,
   refresh_token_expiry |-> time + DefaultRefreshTtl]

\* exchangeCodeForTokens: the legacy answer converted to the v2 format
NormalizeV1Exchange(v1Data, time) ==
  [access_token |-> v1Data.access_token,
   refresh_token |-> OrElse(v1Data.refresh_token, Empty),
   merchant_id |-> v1Data.merchant_id,
   access_token_expiry |-> time + NumOrElse(v1Data.expires_in, DefaultAccessTtl),
   refresh_token_expiry |-> time + DefaultRefreshTtl]

\* a conversion of the legacy refresh answer that keeps nothing of the store
NormalizeV1RefreshNoBackfill(v1Data, tokens, time) ==
  [access_token |-> v1Data.access_token,
   refresh_token |-> OrElse(v1Data.refresh_token, Empty),
   merchant_id |-> v1Data.merchant_id,
   access_token_expiry |-> time + NumOrElse(v1Data.expires_in, DefaultAccessTtl),
   refresh_token_expiry |-> time + DefaultRefreshTtl]

\* refreshAccessToken: the legacy answer converted, with the store's values
NormalizeV1Refresh(v1Data, tokens, time) ==
  [access_token |-> v1Data.access_token,
   refresh_token |-> OrElse(v1Data.refresh_token, tokens.refreshToken),
   merchant_id |-> OrElse(v1Data.merchant_id, tokens.merchantId),
   access_token_expiry |-> time + NumOrElse(v1Data.expires_in, DefaultAccessTtl),
   refresh_token_expiry |-> NumOrElse(tokens.refreshTokenExpiry,
                                      time + DefaultRefreshTtl)]

\* a completion that prefers the merchant id of the callback request
CompleteTokenResponsePrefersCallback(tokenResponse, callbackMerchantId, time) ==
  [tokenResponse EXCEPT
     !.merchant_id = IF ~Falsy(callbackMerchantId)
                     THEN callbackMerchantId ELSE @,
     !.access_token_expiry = NumOrElse(@, time + DefaultAccessTtl),
     !.refresh_token_expiry = NumOrElse(@, time + DefaultRefreshTtl)]

\* the callback handler's completion of the exchanged record
CompleteTokenResponse(tokenResponse, callbackMerchantId, time) ==
  [tokenResponse EXCEPT
     !.merchant_id = IF Falsy(@) /\ ~Falsy(callbackMerchantId)
                     THEN callbackMerchantId ELSE @,
     !.access_token_expiry = NumOrElse(@, time + DefaultAccessTtl),
     !.refresh_token_expiry = NumOrElse(@, time + DefaultRefreshTtl)]

\* ------------------------------------------------------ authorization flow
\* startOAuthFlow, with the outcome of app.listen (the listening or the
\* error event is emitted on the next tick, before any other event)
StartOAuthFlow(listenOk) ==
  IF server # 0
  THEN /\ Begin(Done([IdleTask EXCEPT !.kind = "start"], "already_running"))
       /\ UNCHANGED <<now, storeVars, flowVars>>
  ELSE /\ state' = nextSession
       /\ server' = nextSession
       /\ nextSession' = nextSession + 1
       /\ IF listenOk
          THEN /\ promiseResolve' = nextSession
               /\ promiseReject' = nextSession
               /\ listening' = listening \cup {nextSession}
               /\ launches' = launches \cup {nextSession}
               /\ outcomes' = Append(outcomes, <<>>)
          ELSE /\ promiseResolve' = 0
               /\ promiseReject' = 0
               /\ outcomes' = Append(outcomes,
                    <<Outcome("failure", "listen_error")>>)
               /\ UNCHANGED <<listening, launches>>
       /\ last' = IdleTask
       /\ UNCHANGED <<now, storeVars, timers, closing, tasks>>

\* a launch whose failure fails the pending flow
OpenBrowserResultRejects(s, ok) ==
  /\ s \in launches
  /\ launches' = launches \ {s}
  /\ last' = [IdleTask EXCEPT !.kind = "browser",
                              !.result = IF ok THEN "ok" ELSE "launch_failed"]
  /\ IF ok THEN UNCHANGED <<outcomes, promiseResolve, promiseReject>>
     ELSE RejectPromise("launch_failed")
  /\ UNCHANGED <<now, storeVars, server, state, listening, timers, closing,
                 nextSession, tasks>>

\* openBrowser: the callback of exec for the launch made by flow s, with or
\* without an error (logged with the URL to open by hand)
OpenBrowserResult(s, ok) ==
  /\ s \in launches
  /\ launches' = launches \ {s}
  /\ last' = [IdleTask EXCEPT !.kind = "browser",
                              !.result = IF ok THEN "ok" ELSE "launch_failed"]
  /\ UNCHANGED <<now, storeVars, server, state, promiseResolve, promiseReject,
                 listening, timers, closing, nextSession, outcomes, tasks>>

\* a closeServer that also empties the credential store
CloseServerClearsStore ==
  /\ timers > 0
  /\ timers' = timers - 1
  /\ IF server # 0
     THEN /\ listening' = listening \ {server}
          /\ closing' = closing \cup {server}
     ELSE UNCHANGED <<listening, closing>>
  /\ currentTokens' = InitialTokens
  /\ last' = IdleTask
  /\ UNCHANGED <<now, envFile, server, state, promiseResolve, promiseReject,
                 nextSession, launches, outcomes, tasks>>

\* closeServer, run by a timer set by a successful callback
CloseServer ==
  /\ timers > 0
  /\ timers' = timers - 1
  /\ IF server # 0
     THEN /\ listening' = listening \ {server}
          /\ closing' = closing \cup {server}
     ELSE UNCHANGED <<listening, closing>>
  /\ last' = IdleTask
  /\ UNCHANGED <<now, storeVars, server, state, promiseResolve, promiseReject,
                 nextSession, launches, outcomes, tasks>>

\* a close callback that leaves this.server set
ServerClosedKeepsHandle(s) ==
  /\ s \in closing
  /\ closing' = closing \ {s}
  /\ last' = IdleTask
  /\ UNCHANGED <<now, storeVars, server, state, promiseResolve, promiseReject,
                 listening, timers, nextSession, launches, outcomes, tasks>>

\* the 'close' event of server s: the callbacks given to server.close
ServerClosed(s) ==
  /\ s \in closing
  /\ closing' = closing \ {s}
  /\ server' = 0
  /\ last' = IdleTask
  /\ UNCHANGED <<now, storeVars, state, promiseResolve, promiseReject,
                 listening, timers, nextSession, launches, outcomes, tasks>>

\* ------------------------------------------------------- callback handler
\* a handler that answers 400 without failing the pending flow
CallbackMissingCodeNoReject(st, cbMid) ==
  /\ listening # {}
  /\ Begin(Done([IdleTask EXCEPT !.kind = "callback", !.status = 400,
                                  !.cbState = st, !.cbMid = cbMid],
                "missing_code"))
  /\ UNCHANGED <<now, storeVars, flowVars>>

\* GET /oauth-callback without a code
CallbackMissingCode(st, cbMid) ==
  /\ listening # {}
  /\ Begin(Done([IdleTask EXCEPT !.kind = "callback", !.status = 400,
                                  !.cbState = st, !.cbMid = cbMid],
                "missing_code"))
  /\ RejectPromise("missing_code")
  /\ UNCHANGED <<now, storeVars, server, state, listening, timers, closing,
                 nextSession, launches>>

\* a handler that refuses a request whose state is not the expected one
CallbackWithCodeStrictState(code, st, cbMid) ==
  /\ listening # {}
  /\ IF st = "match"
     THEN /\ Begin(Sent([IdleTask EXCEPT !.kind = "callback",
                                          !.pc = "xchg_v2", !.code = code,
                                          !.cbState = st, !.cbMid = cbMid],
                        "v2token", code))
          /\ UNCHANGED <<now, storeVars, flowVars>>
     ELSE /\ Begin(Done([IdleTask EXCEPT !.kind = "callback", !.status = 400,
                                          !.code = code, !.cbState = st,
                                          !.cbMid = cbMid],
                        "state_mismatch"))
          /\ RejectPromise("state_mismatch")
          /\ UNCHANGED <<now, storeVars, server, state, listening, timers,
                         closing, nextSession, launches>>

\* GET /oauth-callback with a code: up to the request to /oauth/v2/token
CallbackWithCode(code, st, cbMid) ==
  /\ listening # {}
  /\ Begin(Sent([IdleTask EXCEPT !.kind = "callback", !.pc = "xchg_v2",
                                  !.code = code, !.cbState = st,
                                  !.cbMid = cbMid],
                "v2token", code))
  /\ UNCHANGED <<now, storeVars, flowVars>>

\* a handler that resolves the flow and leaves the store as it was
HandlerSuccessSkipsStore(t, task, tokenResponse, writeOk) ==
  LET completed == CompleteTokenResponse(tokenResponse, task.cbMid, now) IN
  /\ ResolvePromise(completed)
  /\ timers' = timers + 1
  /\ Advance(t, Done([task EXCEPT !.status = 200,
                                   !.value = completed.access_token,
                                   !.delivered = IF promiseResolve # 0
                                                 THEN completed ELSE @],
                      "ok"))
  /\ UNCHANGED <<now, storeVars, server, state, listening, closing,
                 nextSession, launches>>

\* the handler after exchangeCodeForTokens returned a truthy record
HandlerSuccess(t, task, tokenResponse, writeOk) ==
  LET completed == CompleteTokenResponse(tokenResponse, task.cbMid, now) IN
  /\ SetTokens(completed, writeOk)
  /\ ResolvePromise(completed)
  /\ timers' = timers + 1
  /\ Advance(t, Done([task EXCEPT !.status = 200,
                                   !.value = completed.access_token,
                                   !.delivered = IF promiseResolve # 0
                                                 THEN completed ELSE @],
                      "ok"))
  /\ UNCHANGED <<now, server, state, listening, closing, nextSession,
                 launches>>

\* a handler that answers a failed exchange with the success page
HandlerFailureAnswersOk(t, task, reason) ==
  /\ Advance(t, Done([task EXCEPT !.status = 200], reason))
  /\ RejectPromise(reason)
  /\ UNCHANGED <<now, storeVars, server, state, listening, timers, closing,
                 nextSession, launches>>

\* the handler after exchangeCodeForTokens failed or returned nothing
HandlerFailure(t, task, reason) ==
  /\ Advance(t, Done([task EXCEPT !.status = 500], reason))
  /\ RejectPromise(reason)
  /\ UNCHANGED <<now, storeVars, server, state, listening, timers, closing,
                 nextSession, launches>>

\* /oauth/v2/token answered 2xx with a record
ExchangeV2Ok(t, data, writeOk) ==
  /\ tasks[t].pc = "xchg_v2"
  /\ HandlerSuccess(t, [tasks[t] EXCEPT !.respTier = "v2", !.respV2 = data],
                    data, writeOk)

\* /oauth/v2/token answered 2xx with an empty body
ExchangeV2Empty(t) ==
  /\ tasks[t].pc = "xchg_v2"
  /\ HandlerFailure(t, tasks[t], "no_tokens")

\* an exchange that gives up after the versioned endpoint
ExchangeV2FailNoFallback(t) ==
  /\ tasks[t].pc = "xchg_v2"
  /\ HandlerFailure(t, tasks[t], "exchange_error")

\* /oauth/v2/token failed: the request to the legacy /oauth/token
ExchangeV2Fail(t) ==
  /\ tasks[t].pc = "xchg_v2"
  /\ Advance(t, Sent([tasks[t] EXCEPT !.pc = "xchg_v1"], "v1token",
                      tasks[t].code))
  /\ UNCHANGED <<now, storeVars, flowVars>>

\* the legacy /oauth/token answered 2xx
ExchangeV1Ok(t, v1Data, writeOk) ==
  /\ tasks[t].pc = "xchg_v1"
  /\ HandlerSuccess(t, [tasks[t] EXCEPT !.respTier = "v1", !.respV1 = v1Data],
                    NormalizeV1Exchange(v1Data, now), writeOk)

\* the legacy /oauth/token failed as well
ExchangeV1Fail(t) ==
  /\ tasks[t].pc = "xchg_v1"
  /\ HandlerFailure(t, tasks[t], "exchange_error")

\* ------------------------------------------------------------- API client
\* The continuation of a task after the access token `token` was obtained by
\* ensureValidToken or refreshAccessToken in context ctx, the store then
\* being `tokens`:
\*   "direct"  a refreshAccessToken call of the application
\*   "ensure"  an ensureValidToken call of the application
\*   "ec"      ensureValidToken in ensureCredentials, before client.get
\*   "ri"      ensureValidToken in the request interceptor
\*   "rs"      refreshAccessToken in the response interceptor (after a 401)
\*   "mc"      ensureValidToken in ensureCredentials, in getMerchantInfo
\*   "mv"      ensureValidToken in getMerchantInfo, before axios.get

\* a refreshAccessToken that waits for a refresh already in flight
BeginRefreshCoalesced(task, ctx, tokens, noTokenError) ==
  IF Falsy(tokens.refreshToken)
  THEN Done(task, noTokenError)
  ELSE IF \E t \in DOMAIN tasks : tasks[t].pc \in {"ref_v2", "ref_v1"}
       THEN [task EXCEPT !.pc = "ref_shared", !.ctx = ctx]
       ELSE Sent([task EXCEPT !.pc = "ref_v2", !.ctx = ctx], "v2refresh",
                 tokens.refreshToken)

\* refreshAccessToken up to its first request
BeginRefresh(task, ctx, tokens, noTokenError) ==
  IF Falsy(tokens.refreshToken)
  THEN Done(task, noTokenError)
  ELSE Sent([task EXCEPT !.pc = "ref_v2", !.ctx = ctx], "v2refresh",
            tokens.refreshToken)

\* the request interceptor: ensureValidToken, then the request is sent
RequestInterceptor(task, tokens, time) ==
  IF HasValidTokensAt(tokens, time)
  THEN Sent([task EXCEPT !.pc = "api_wait", !.ctx = ""], "api",
            tokens.accessToken)
  ELSE BeginRefresh(task, "ri", tokens, "unauthenticated")

\* a data access that leaves the check of the credentials to the guard
DataAccessCallGuardOnly(task, tokens, time) ==
  IF HasValidTokensAt(tokens, time)
  THEN RequestInterceptor(task, tokens, time)
  ELSE BeginRefresh(task, "ec", tokens, "unauthenticated")

\* ensureCredentials followed by client.get (listInventory, listOrders,
\* getOrder, getItem)
DataAccessCall(task, tokens, time) ==
  IF Falsy(tokens.accessToken) THEN Done(task, "api_key_required")
  ELSE IF Falsy(tokens.merchantId) THEN Done(task, "merchant_id_required")
  ELSE IF HasValidTokensAt(tokens, time)
       THEN RequestInterceptor(task, tokens, time)
       ELSE BeginRefresh(task, "ec", tokens, "unauthenticated")

\* getMerchantInfo: axios.get with the bearer token, outside the client
RawRequest(task, token) ==
  Sent([task EXCEPT !.pc = "raw_wait", !.ctx = ""], "api", token)

\* getMerchantInfo after ensureCredentials: ensureValidToken, then axios.get
MerchantInfoToken(task, tokens, time) ==
  IF HasValidTokensAt(tokens, time)
  THEN RawRequest(task, tokens.accessToken)
  ELSE BeginRefresh(task, "mv", tokens, "unauthenticated")

\* getMerchantInfo up to its first request
GetMerchantInfoCall(task, tokens, time) ==
  IF Falsy(tokens.accessToken) THEN Done(task, "api_key_required")
  ELSE IF Falsy(tokens.merchantId) THEN Done(task, "merchant_id_required")
  ELSE IF HasValidTokensAt(tokens, time)
       THEN MerchantInfoToken(task, tokens, time)
       ELSE BeginRefresh(task, "mc", tokens, "unauthenticated")

\* ensureValidToken that does not look at the expiry
EnsureValidTokenCallIgnoresExpiry(task, tokens, time) ==
  IF ~Falsy(tokens.accessToken) /\ ~Falsy(tokens.merchantId)
  THEN Done([task EXCEPT !.value = tokens.accessToken], "ok")
  ELSE BeginRefresh(task, "ensure", tokens, "unauthenticated")

\* ensureValidToken called by the application
EnsureValidTokenCall(task, tokens, time) ==
  IF HasValidTokensAt(tokens, time)
  THEN Done([task EXCEPT !.value = tokens.accessToken], "ok")
  ELSE BeginRefresh(task, "ensure", tokens, "unauthenticated")

\* a response interceptor that sends the rejected request again as it was,
\* with the bearer token it carried
AfterRefreshResendsRequest(task, tokenResponse, tokens, time) ==
  CASE task.ctx \in {"direct", "ensure"} ->
         Done([task EXCEPT !.value = tokenResponse.access_token], "ok")
    [] task.ctx = "ec" -> RequestInterceptor(task, tokens, time)
    [] task.ctx = "ri" ->
         Sent([task EXCEPT !.pc = "api_wait", !.ctx = ""], "api",
              tokenResponse.access_token)
    [] task.ctx = "rs" ->
         LET sent == {i \in DOMAIN task.log : task.log[i].to = "api"}
         IN  Sent([task EXCEPT !.retries = @ + 1, !.pc = "api_wait",
                               !.ctx = ""], "api",
                  task.log[CHOOSE i \in sent : TRUE].cred)
    [] task.ctx = "mc" -> MerchantInfoToken(task, tokens, time)
    [] task.ctx = "mv" -> RawRequest(task, tokenResponse.access_token)

\* what follows a successful refresh that returned tokenResponse
AfterRefresh(task, tokenResponse, tokens, time) ==
  CASE task.ctx \in {"direct", "ensure"} ->
         Done([task EXCEPT !.value = tokenResponse.access_token], "ok")
    [] task.ctx = "ec" -> RequestInterceptor(task, tokens, time)
    [] task.ctx = "ri" ->
         Sent([task EXCEPT !.pc = "api_wait", !.ctx = ""], "api",
              tokenResponse.access_token)
    [] task.ctx = "rs" ->
         RequestInterceptor([task EXCEPT !.retries = @ + 1], tokens, time)
    [] task.ctx = "mc" -> MerchantInfoToken(task, tokens, time)
    [] task.ctx = "mv" -> RawRequest(task, tokenResponse.access_token)

\* a response interceptor that retries the request after a failed refresh
AfterRefreshFailureRetries(task) ==
  CASE task.ctx = "direct" -> Done(task, "refresh_error")
    [] task.ctx = "rs" ->
         RequestInterceptor([task EXCEPT !.retries = @ + 1], currentTokens,
                            now)
    [] task.ctx \in {"ensure", "ec", "ri", "mc", "mv"} ->
         Done(task, "unable_to_refresh")

\* what follows a refresh whose two tiers failed
AfterRefreshFailure(task) ==
  CASE task.ctx \in {"direct", "rs"} -> Done(task, "refresh_error")
    [] task.ctx \in {"ensure", "ec", "ri", "mc", "mv"} ->
         Done(task, "unable_to_refresh")

\* listInventory, listOrders, getOrder or getItem is called
DataAccess ==
  /\ Begin(DataAccessCall([IdleTask EXCEPT !.kind = "api"], GetTokens, now))
  /\ UNCHANGED <<now, storeVars, flowVars>>

\* getMerchantInfo is called
GetMerchantInfo ==
  /\ Begin(GetMerchantInfoCall([IdleTask EXCEPT !.kind = "merchant"],
                               GetTokens, now))
  /\ UNCHANGED <<now, storeVars, flowVars>>

\* ensureValidToken is called
EnsureValidToken ==
  /\ Begin(EnsureValidTokenCall([IdleTask EXCEPT !.kind = "ensure"],
                                currentTokens, now))
  /\ UNCHANGED <<now, storeVars, flowVars>>

\* refreshAccessToken is called
RefreshAccessToken ==
  /\ Begin(BeginRefresh([IdleTask EXCEPT !.kind = "refresh"], "direct",
                        currentTokens, "no_refresh_token"))
  /\ UNCHANGED <<now, storeVars, flowVars>>

\* hasValidTokens is called
HasValidTokensCall ==
  /\ Begin(Done([IdleTask EXCEPT !.kind = "valid",
                                  !.value = IF HasValidTokens THEN "true"
                                            ELSE "false"], "ok"))
  /\ UNCHANGED <<now, storeVars, flowVars>>

\* /oauth/v2/refresh answered 2xx
RefreshV2Ok(t, data, writeOk) ==
  /\ tasks[t].pc = "ref_v2"
  /\ SetTokens(data, writeOk)
  /\ Advance(t, AfterRefresh([tasks[t] EXCEPT !.respTier = "v2",
                                                !.respV2 = data],
                             data, StoredTokens(data), now))
  /\ UNCHANGED <<now, flowVars>>

\* a refresh that gives up after the versioned endpoint
RefreshV2FailNoFallback(t) ==
  /\ tasks[t].pc = "ref_v2"
  /\ Advance(t, AfterRefreshFailure(tasks[t]))
  /\ UNCHANGED <<now, storeVars, flowVars>>

\* /oauth/v2/refresh failed: the request to the legacy /oauth/token
RefreshV2Fail(t) ==
  /\ tasks[t].pc = "ref_v2"
  /\ Advance(t, Sent([tasks[t] EXCEPT !.pc = "ref_v1"], "v1refresh",
                      currentTokens.refreshToken))
  /\ UNCHANGED <<now, storeVars, flowVars>>

\* the legacy /oauth/token answered the refresh 2xx
RefreshV1Ok(t, v1Data, writeOk) ==
  LET transformedData == NormalizeV1Refresh(v1Data, currentTokens, now) IN
  /\ tasks[t].pc = "ref_v1"
  /\ SetTokens(transformedData, writeOk)
  /\ Advance(t, AfterRefresh([tasks[t] EXCEPT !.respTier = "v1",
                                                !.respV1 = v1Data],
                             transformedData, StoredTokens(transformedData),
                             now))
  /\ UNCHANGED <<now, flowVars>>

\* a failed refresh that empties the store
RefreshV1FailClearsStore(t) ==
  /\ tasks[t].pc = "ref_v1"
  /\ Advance(t, AfterRefreshFailure(tasks[t]))
  /\ currentTokens' = InitialTokens
  /\ UNCHANGED <<now, envFile, flowVars>>

\* the legacy /oauth/token failed as well
RefreshV1Fail(t) ==
  /\ tasks[t].pc = "ref_v1"
  /\ Advance(t, AfterRefreshFailure(tasks[t]))
  /\ UNCHANGED <<now, storeVars, flowVars>>

\* a response interceptor that does not mark the request as retried
ResponseInterceptorNoRetryFlag(task, status, tokens) ==
  IF status = 200 THEN Done(task, "ok")
  ELSE IF status = 401 /\ ~task.retry
       THEN BeginRefresh([task EXCEPT !.rsRefreshes = @ + 1],
                         "rs", tokens, "no_refresh_token")
       ELSE Done(task, IF status = 401 THEN "http_401" ELSE "http_error")

\* the response interceptor
ResponseInterceptor(task, status, tokens) ==
  IF status = 200 THEN Done(task, "ok")
  ELSE IF status = 401 /\ ~task.retry
       THEN BeginRefresh([task EXCEPT !.retry = TRUE, !.rsRefreshes = @ + 1],
                         "rs", tokens, "no_refresh_token")
       ELSE Done(task, IF status = 401 THEN "http_401" ELSE "http_error")

\* the upstream API answered a request of client.get
ApiResponse(t, status) ==
  /\ tasks[t].pc = "api_wait"
  /\ Advance(t, ResponseInterceptor([tasks[t] EXCEPT !.status = status],
                                    status, currentTokens))
  /\ UNCHANGED <<now, storeVars, flowVars>>

\* the upstream API answered the request of getMerchantInfo
MerchantInfoResponse(t, status) ==
  /\ tasks[t].pc = "raw_wait"
  /\ Advance(t, Done([tasks[t] EXCEPT !.status = status],
                     IF status = 200 THEN "ok"
                     ELSE IF status = 401 THEN "http_401" ELSE "http_error"))
  /\ UNCHANGED <<now, storeVars, flowVars>>

\* a second passes
Tick ==
  /\ now < MaxTime
  /\ now' = now + 1
  /\ last' = IdleTask
  /\ UNCHANGED <<storeVars, flowVars, tasks>>

\* ---------------------------------------------------------- specification
Init ==
  /\ now = 1
  /\ currentTokens = InitialTokens
  /\ envFile = NoFile
  /\ server = 0
  /\ state = 0
  /\ promiseResolve = 0
  /\ promiseReject = 0
  /\ listening = {}
  /\ timers = 0
  /\ closing = {}
  /\ nextSession = 1
  /\ launches = {}
  /\ outcomes = <<>>
  /\ tasks = <<>>
  /\ last = IdleTask

\* The authorization flow with its listener, its timers and concurrent
\* callback requests; the provider's answers are complete.
FlowMaxSessions == 3
FlowMaxTimers == 2
FlowMaxTasks == 2

FlowV2Bodies ==
  {b \in ExchangeV2Bodies : /\ b.access_token = "A1"
                            /\ b.refresh_token = "R1"
                            /\ b.merchant_id = "M1"
                            /\ b.access_token_expiry = 0
                            /\ b.refresh_token_expiry = 0}

FlowV1Bodies ==
  {b \in ExchangeV1Bodies : /\ b.refresh_token = "R1"
                            /\ b.merchant_id = "M1"
                            /\ b.access_token = "A1"
                            /\ b.expires_in = 1}

NextFlow ==
  \/ \E ok \in BOOLEAN :
       /\ server = 0 => nextSession <= FlowMaxSessions
       /\ StartOAuthFlow(ok)
  \/ CloseServer
  \/ \E s \in closing : ServerClosed(s)
  \/ CallbackMissingCode("match", Absent)
  \/ \E c \in CallbackCodes :
       /\ Len(tasks) < FlowMaxTasks
       /\ CallbackWithCode(c, "match", Absent)
  \/ \E t \in TaskIds, d \in FlowV2Bodies :
       /\ timers < FlowMaxTimers
       /\ ExchangeV2Ok(t, d, TRUE)
  \/ \E t \in TaskIds : ExchangeV2Empty(t)
  \/ \E t \in TaskIds : ExchangeV2Fail(t)
  \/ \E t \in TaskIds, d \in FlowV1Bodies :
       /\ timers < FlowMaxTimers
       /\ ExchangeV1Ok(t, d, TRUE)
  \/ \E t \in TaskIds : ExchangeV1Fail(t)

SpecFlow == Init /\ [][NextFlow]_vars

\* The same with the event loop's guarantees: a timer that was set fires,
\* and a server that was closed emits its 'close' event once its connections
\* have ended.
SpecFlowLive ==
  /\ SpecFlow
  /\ WF_vars(CloseServer)
  /\ WF_vars(\E s \in closing : ServerClosed(s))

\* The browser launch: its outcome is reported at any time after the
\* listener started, before or after the callback requests.
LaunchMaxSessions == 2
LaunchMaxTimers == 1
LaunchMaxTasks == 1

NextLaunch ==
  \/ \E ok \in BOOLEAN :
       /\ server = 0 => nextSession <= LaunchMaxSessions
       /\ StartOAuthFlow(ok)
  \/ \E s \in launches, ok \in BOOLEAN : OpenBrowserResult(s, ok)
  \/ CloseServer
  \/ \E s \in closing : ServerClosed(s)
  \/ CallbackMissingCode("match", Absent)
  \/ \E c \in CallbackCodes :
       /\ Len(tasks) < LaunchMaxTasks
       /\ CallbackWithCode(c, "match", Absent)
  \/ \E t \in TaskIds, d \in FlowV2Bodies :
       /\ timers < LaunchMaxTimers
       /\ ExchangeV2Ok(t, d, TRUE)
  \/ \E t \in TaskIds : ExchangeV2Fail(t)
  \/ \E t \in TaskIds, d \in FlowV1Bodies :
       /\ timers < LaunchMaxTimers
       /\ ExchangeV1Ok(t, d, TRUE)
  \/ \E t \in TaskIds : ExchangeV1Fail(t)

SpecLaunch == Init /\ [][NextLaunch]_vars

\* The callback handler under every request: with or without code, with a
\* matching, a different or no state, with or without merchant id, several
\* requests being handled at a time.
CbMaxSessions == 1
CbMaxTimers == 2
CbMaxTasks == 2

CbV2Bodies ==
  {b \in ExchangeV2Bodies : /\ b.access_token = "A1"
                            /\ b.refresh_token = "R1"
                            /\ b.access_token_expiry = 0
                            /\ b.refresh_token_expiry = 0}

CbV1Bodies ==
  {b \in ExchangeV1Bodies : /\ b.refresh_token = Absent
                            /\ b.access_token = "A1"
                            /\ b.merchant_id = "M1"
                            /\ b.expires_in = 1}

NextCallback ==
  \/ \E ok \in BOOLEAN :
       /\ server = 0 => nextSession <= CbMaxSessions
       /\ StartOAuthFlow(ok)
  \/ CloseServer
  \/ \E s \in closing : ServerClosed(s)
  \/ \E st \in CallbackStates, m \in CallbackMerchantIds :
       CallbackMissingCode(st, m)
  \/ \E c \in CallbackCodes, st \in CallbackStates,
        m \in CallbackMerchantIds :
       /\ Len(tasks) < CbMaxTasks
       /\ CallbackWithCode(c, st, m)
  \/ \E t \in TaskIds, d \in CbV2Bodies :
       /\ timers < CbMaxTimers
       /\ ExchangeV2Ok(t, d, TRUE)
  \/ \E t \in TaskIds : ExchangeV2Empty(t)
  \/ \E t \in TaskIds : ExchangeV2Fail(t)
  \/ \E t \in TaskIds, d \in CbV1Bodies :
       /\ timers < CbMaxTimers
       /\ ExchangeV1Ok(t, d, TRUE)
  \/ \E t \in TaskIds : ExchangeV1Fail(t)

SpecCallback == Init /\ [][NextCallback]_vars

\* Callback requests that arrive one after the other, each after the handler
\* of the one before has ended, while the listener of a flow runs on.
LateMaxSessions == 1
LateMaxTimers == 2
LateMaxTasks == 1

NextLate ==
  \/ /\ server = 0 => nextSession <= LateMaxSessions
     /\ StartOAuthFlow(TRUE)
  \/ CloseServer
  \/ \E s \in closing : ServerClosed(s)
  \/ /\ Len(tasks) < LateMaxTasks
     /\ CallbackMissingCode("match", Absent)
  \/ \E c \in CallbackCodes :
       /\ Len(tasks) < LateMaxTasks
       /\ CallbackWithCode(c, "match", Absent)
  \/ \E t \in TaskIds, d \in CbV2Bodies :
       /\ timers < LateMaxTimers
       /\ ExchangeV2Ok(t, d, TRUE)
  \/ \E t \in TaskIds : ExchangeV2Empty(t)
  \/ \E t \in TaskIds : ExchangeV2Fail(t)
  \/ \E t \in TaskIds, d \in CbV1Bodies :
       /\ timers < LateMaxTimers
       /\ ExchangeV1Ok(t, d, TRUE)
  \/ \E t \in TaskIds : ExchangeV1Fail(t)

SpecLate == Init /\ [][NextLate]_vars

\* The .env file: it may exist or not when the process starts, with or
\* without the two key lines, and a read or a write of it may fail.
InitEnv ==
  /\ now = 1
  /\ currentTokens = InitialTokens
  /\ envFile \in EnvFiles
  /\ server = 0
  /\ state = 0
  /\ promiseResolve = 0
  /\ promiseReject = 0
  /\ listening = {}
  /\ timers = 0
  /\ closing = {}
  /\ nextSession = 1
  /\ launches = {}
  /\ outcomes = <<>>
  /\ tasks = <<>>
  /\ last = IdleTask

EnvMaxSessions == 1
EnvMaxTimers == 1
EnvMaxTasks == 1

EnvExchangeV2Bodies ==
  {b \in ExchangeV2Bodies : /\ b.access_token = "A1"
                            /\ b.refresh_token = "R1"
                            /\ b.access_token_expiry = 0
                            /\ b.refresh_token_expiry = 0}

EnvExchangeV1Bodies ==
  {b \in ExchangeV1Bodies : /\ b.access_token = "A1"
                            /\ b.refresh_token = "R1"
                            /\ b.merchant_id = "M1"
                            /\ b.expires_in = 0}

EnvRefreshV2Bodies ==
  {b \in RefreshV2Bodies : /\ b.access_token = "A2"
                           /\ b.refresh_token = "R2"
                           /\ b.access_token_expiry = 0
                           /\ b.refresh_token_expiry = 0}

EnvRefreshV1Bodies ==
  {b \in RefreshV1Bodies : /\ b.access_token = "A2"
                           /\ b.refresh_token = Absent
                           /\ b.merchant_id = Absent
                           /\ b.expires_in = 0}

NextEnv ==
  \/ /\ server = 0 => nextSession <= EnvMaxSessions
     /\ StartOAuthFlow(TRUE)
  \/ CloseServer
  \/ \E s \in closing : ServerClosed(s)
  \/ \E c \in CallbackCodes, m \in CallbackMerchantIds :
       /\ Len(tasks) < EnvMaxTasks
       /\ CallbackWithCode(c, "match", m)
  \/ \E t \in TaskIds, d \in EnvExchangeV2Bodies, w \in BOOLEAN :
       /\ timers < EnvMaxTimers
       /\ ExchangeV2Ok(t, d, w)
  \/ \E t \in TaskIds : ExchangeV2Fail(t)
  \/ \E t \in TaskIds, d \in EnvExchangeV1Bodies, w \in BOOLEAN :
       /\ timers < EnvMaxTimers
       /\ ExchangeV1Ok(t, d, w)
  \/ \E t \in TaskIds : ExchangeV1Fail(t)
  \/ /\ Len(tasks) < EnvMaxTasks
     /\ RefreshAccessToken
  \/ \E t \in TaskIds, d \in EnvRefreshV2Bodies, w \in BOOLEAN :
       RefreshV2Ok(t, d, w)
  \/ \E t \in TaskIds : RefreshV2Fail(t)
  \/ \E t \in TaskIds, d \in EnvRefreshV1Bodies, w \in BOOLEAN :
       RefreshV1Ok(t, d, w)
  \/ \E t \in TaskIds : RefreshV1Fail(t)

SpecEnv == InitEnv /\ [][NextEnv]_vars

\* The credential store under every answer of the provider: one flow, then
\* ensureValidToken, refreshAccessToken and hasValidTokens calls while the
\* clock advances.
TokMaxSessions == 1
TokMaxTimers == 1
TokMaxTasks == 1

NextTokens ==
  \/ /\ server = 0 => nextSession <= TokMaxSessions
     /\ StartOAuthFlow(TRUE)
  \/ CloseServer
  \/ \E s \in closing : ServerClosed(s)
  \/ CallbackMissingCode("match", Absent)
  \/ \E c \in CallbackCodes, m \in CallbackMerchantIds :
       /\ Len(tasks) < TokMaxTasks
       /\ CallbackWithCode(c, "match", m)
  \/ \E t \in TaskIds, d \in ExchangeV2Bodies :
       /\ timers < TokMaxTimers
       /\ ExchangeV2Ok(t, d, TRUE)
  \/ \E t \in TaskIds : ExchangeV2Empty(t)
  \/ \E t \in TaskIds : ExchangeV2Fail(t)
  \/ \E t \in TaskIds, d \in ExchangeV1Bodies :
       /\ timers < TokMaxTimers
       /\ ExchangeV1Ok(t, d, TRUE)
  \/ \E t \in TaskIds : ExchangeV1Fail(t)
  \/ /\ Len(tasks) < TokMaxTasks
     /\ EnsureValidToken
  \/ /\ Len(tasks) < TokMaxTasks
     /\ RefreshAccessToken
  \/ HasValidTokensCall
  \/ \E t \in TaskIds, d \in RefreshV2Bodies : RefreshV2Ok(t, d, TRUE)
  \/ \E t \in TaskIds : RefreshV2Fail(t)
  \/ \E t \in TaskIds, d \in RefreshV1Bodies : RefreshV1Ok(t, d, TRUE)
  \/ \E t \in TaskIds : RefreshV1Fail(t)
  \/ Tick

SpecTokens == Init /\ [][NextTokens]_vars

\* The credential-aware API client: one flow fills the store, then
\* data-access calls run concurrently with each other while the clock
\* advances; the provider's answers may lack the merchant id or the expiry.
ApiMaxSessions == 1
ApiMaxTimers == 1
ApiMaxTasks == 1

ApiExchangeBodies ==
  {b \in ExchangeV2Bodies : /\ b.access_token = "A1"
                            /\ b.merchant_id = "M1"
                            /\ b.refresh_token_expiry = 0}

ApiRefreshV2Bodies ==
  {b \in RefreshV2Bodies : /\ b.access_token = "A2"
                           /\ b.refresh_token = "R2"
                           /\ b.access_token_expiry = 0
                           /\ b.refresh_token_expiry = 0}

ApiRefreshV1Bodies ==
  {b \in RefreshV1Bodies : /\ b.access_token = "A2"
                           /\ b.refresh_token = Absent
                           /\ b.merchant_id = Absent}

NextApi ==
  \/ /\ server = 0 => nextSession <= ApiMaxSessions
     /\ StartOAuthFlow(TRUE)
  \/ \E c \in CallbackCodes :
       /\ Len(tasks) < ApiMaxTasks
       /\ CallbackWithCode(c, "match", Absent)
  \/ \E t \in TaskIds, d \in ApiExchangeBodies :
       /\ timers < ApiMaxTimers
       /\ ExchangeV2Ok(t, d, TRUE)
  \/ /\ Len(tasks) < ApiMaxTasks
     /\ DataAccess
  \/ /\ Len(tasks) < ApiMaxTasks
     /\ GetMerchantInfo
  \/ \E t \in TaskIds, d \in ApiRefreshV2Bodies : RefreshV2Ok(t, d, TRUE)
  \/ \E t \in TaskIds : RefreshV2Fail(t)
  \/ \E t \in TaskIds, d \in ApiRefreshV1Bodies : RefreshV1Ok(t, d, TRUE)
  \/ \E t \in TaskIds : RefreshV1Fail(t)
  \/ \E t \in TaskIds, status \in {200, 401, 500} : ApiResponse(t, status)
  \/ \E t \in TaskIds, status \in {200, 401, 500} :
       MerchantInfoResponse(t, status)
  \/ Tick

SpecApi == Init /\ [][NextApi]_vars

\* Concurrent calls through the client around the expiry of the access
\* token: one flow stores a credential that expires at time 2, then several
\* data-access calls are in progress at a time.
CcMaxSessions == 1
CcMaxTimers == 1
CcMaxTasks == 2

CcExchangeBodies ==
  {b \in ExchangeV2Bodies : /\ b.access_token = "A1"
                            /\ b.refresh_token = "R1"
                            /\ b.merchant_id = "M1"
                            /\ b.access_token_expiry = 2
                            /\ b.refresh_token_expiry = 0}

CcRefreshV2Bodies ==
  {b \in RefreshV2Bodies : /\ b.access_token = "A2"
                           /\ b.refresh_token = "R2"
                           /\ b.merchant_id = "M1"
                           /\ b.access_token_expiry = 0
                           /\ b.refresh_token_expiry = 0}

CcRefreshV1Bodies ==
  {b \in RefreshV1Bodies : /\ b.access_token = "A2"
                           /\ b.refresh_token = Absent
                           /\ b.merchant_id = Absent
                           /\ b.expires_in = 0}

NextConcurrent ==
  \/ /\ server = 0 => nextSession <= CcMaxSessions
     /\ StartOAuthFlow(TRUE)
  \/ \E c \in CallbackCodes :
       /\ tasks = <<>>
       /\ CallbackWithCode(c, "match", Absent)
  \/ \E t \in TaskIds, d \in CcExchangeBodies :
       /\ timers < CcMaxTimers
       /\ ExchangeV2Ok(t, d, TRUE)
  \/ /\ Len(tasks) < CcMaxTasks
     /\ DataAccess
  \/ \E t \in TaskIds, d \in CcRefreshV2Bodies : RefreshV2Ok(t, d, TRUE)
  \/ \E t \in TaskIds : RefreshV2Fail(t)
  \/ \E t \in TaskIds, d \in CcRefreshV1Bodies : RefreshV1Ok(t, d, TRUE)
  \/ \E t \in TaskIds : RefreshV1Fail(t)
  \/ \E t \in TaskIds, status \in {200, 401} : ApiResponse(t, status)
  \/ Tick

SpecConcurrent == Init /\ [][NextConcurrent]_vars

\* ------------------------------------------------------------ properties
\* a startOAuthFlow call was made in this step
StartCalled == nextSession' # nextSession \/ last'.kind = "start"

\* a flow waits for its outcome
FlowPending == promiseResolve # 0 \/ promiseReject # 0

\* C1: a startOAuthFlow call made while a flow is pending is rejected with an
\* error and leaves the pending flow's state token, its completion callbacks
\* and its listener as they were.
C1_SecondStartRejected ==
  [][(FlowPending /\ StartCalled) =>
       /\ last'.kind = "start"
       /\ last'.result = "already_running"
       /\ UNCHANGED <<state, promiseResolve, promiseReject, server, listening>>
    ]_vars

\* C2: the promise callbacks of a flow are called at most once in all, with
\* a success or with a failure; with no flow pending, a step that is not an
\* accepted startOAuthFlow call delivers nothing.
C2_AtMostOneOutcome ==
  [][/\ \A s \in DOMAIN outcomes' : Len(outcomes'[s]) <= 1
     /\ (~FlowPending /\ nextSession' = nextSession) => outcomes' = outcomes
    ]_vars

\* a callback succeeded after its flow had been failed by a callback without
\* code: its resolvePromise call delivered nothing
C2_Witness ==
  /\ last.kind = "callback"
  /\ last.status = 200
  /\ last.delivered = NoTokens
  /\ \E s \in DOMAIN outcomes :
       outcomes[s] = <<Outcome("failure", "missing_code")>>

\* C10: a callback request without code is answered 400, fails the pending
\* flow with the missing-code error, sends no request and leaves the
\* credential store and the .env file as they were.
C10_MissingCode ==
  [][(last'.kind = "callback" /\ last'.code = Absent) =>
       /\ last'.status = 400
       /\ last'.result = "missing_code"
       /\ last'.log = <<>>
       /\ UNCHANGED <<currentTokens, envFile, tasks>>
       /\ promiseReject' = 0
       /\ promiseReject # 0 =>
            outcomes' = [outcomes EXCEPT ![promiseReject] =
                           <<Outcome("failure", "missing_code")>>]
       /\ promiseReject = 0 => outcomes' = outcomes
    ]_vars

\* a callback without code has just failed a pending flow
C10_Witness ==
  /\ last.kind = "callback"
  /\ last.code = Absent
  /\ last.status = 400
  /\ ~FlowPending
  /\ \E s \in DOMAIN outcomes :
       outcomes[s] = <<Outcome("failure", "missing_code")>>

\* a refreshAccessToken call of the application, or one made by an
\* ensureValidToken call of the application, succeeded in this step
RefreshSucceeded ==
  /\ last'.kind \in {"ensure", "refresh"}
  /\ last'.result = "ok"
  /\ last'.respTier # "none"

\* C3: a successful refresh, on either tier, keeps the stored refresh token,
\* merchant id and refresh expiry when they are known and the answer omits
\* them.
C3_RefreshKeepsKnownFields ==
  [][RefreshSucceeded =>
       LET v2 == last'.respTier = "v2"
           omitsRefresh == IF v2 THEN Falsy(last'.respV2.refresh_token)
                           ELSE Falsy(last'.respV1.refresh_token)
           omitsMerchant == IF v2 THEN Falsy(last'.respV2.merchant_id)
                            ELSE Falsy(last'.respV1.merchant_id)
           omitsExpiry == IF v2 THEN last'.respV2.refresh_token_expiry = 0
                          ELSE TRUE
       IN /\ (omitsRefresh /\ ~Falsy(currentTokens.refreshToken)) =>
               currentTokens'.refreshToken = currentTokens.refreshToken
          /\ (omitsMerchant /\ ~Falsy(currentTokens.merchantId)) =>
               currentTokens'.merchantId = currentTokens.merchantId
          /\ (omitsExpiry /\ currentTokens.refreshTokenExpiry # 0) =>
               currentTokens'.refreshTokenExpiry =
                 currentTokens.refreshTokenExpiry
    ]_vars

\* C4: the store holds neither an access token nor a merchant id, or both.
C4_StoreAllOrNothing ==
  Falsy(currentTokens.accessToken) = Falsy(currentTokens.merchantId)

\* the requests of a callback's exchange, in order
V2Token(task) == Request("v2token", task.code)

V1Token(task) == Request("v1token", task.code)

ExchangeLogOk(task) ==
  (task.kind = "callback" /\ task.code # Absent) =>
    /\ task.pc \in {"xchg_v2", "xchg_v1", "done"}
    /\ task.pc = "xchg_v2" => task.log = <<V2Token(task)>>
    /\ task.pc = "xchg_v1" => task.log = <<V2Token(task), V1Token(task)>>
    /\ task.pc = "done" =>
         /\ task.result \in {"ok", "no_tokens", "exchange_error"}
         /\ task.result = "ok" => task.respTier \in {"v2", "v1"}
         /\ task.respTier = "v2" =>
              task.result = "ok" /\ task.log = <<V2Token(task)>>
         /\ task.respTier = "v1" =>
              /\ task.result = "ok"
              /\ task.log = <<V2Token(task), V1Token(task)>>
         /\ task.result = "no_tokens" => task.log = <<V2Token(task)>>
         /\ task.result = "exchange_error" =>
              task.log = <<V2Token(task), V1Token(task)>>

RefreshLogOk(task) ==
  task.kind \in {"ensure", "refresh"} =>
    /\ Len(task.log) <= 2
    /\ Len(task.log) >= 1 =>
         task.log[1].to = "v2refresh" /\ ~Falsy(task.log[1].cred)
    /\ Len(task.log) = 2 => task.log[2].to = "v1refresh"
    /\ task.pc = "ref_v2" => Len(task.log) = 1
    /\ task.pc = "ref_v1" => Len(task.log) = 2
    /\ task.pc = "done" =>
         /\ task.respTier = "v2" => task.result = "ok" /\ Len(task.log) = 1
         /\ task.respTier = "v1" => task.result = "ok" /\ Len(task.log) = 2
         /\ task.result \in {"refresh_error", "unable_to_refresh"} =>
              Len(task.log) = 2 /\ task.respTier = "none"
         /\ task.result \in {"no_refresh_token", "unauthenticated"} =>
              task.log = <<>>

\* C6: a refresh asks /oauth/v2/refresh first and the legacy /oauth/token,
\* with the stored refresh token, exactly when the first attempt failed; it
\* fails with the re-authenticate error only when both have failed, and
\* sends no request after that.
C6_RefreshFallback ==
  [][/\ \A t \in DOMAIN tasks' : RefreshLogOk(tasks'[t])
     /\ RefreshLogOk(last')
     /\ \A t \in DOMAIN tasks :
          (/\ Len(tasks') = Len(tasks)
           /\ tasks[t].kind \in {"ensure", "refresh"}
           /\ tasks[t].pc = "ref_v2"
           /\ tasks'[t].pc = "ref_v1") =>
            tasks'[t].log[2] = Request("v1refresh", currentTokens.refreshToken)
    ]_vars

\* a refreshAccessToken call failed on both tiers
C6_Witness ==
  /\ last.kind = "refresh"
  /\ last.result = "refresh_error"
  /\ Len(last.log) = 2

\* C8: hasValidTokens answers false when the access token or the merchant id
\* is absent or when the clock has reached the stored expiry, true otherwise,
\* and changes nothing.
C8_HasValidTokens ==
  [][last'.kind = "valid" =>
       /\ last'.value =
            IF \/ Falsy(currentTokens.accessToken)
               \/ Falsy(currentTokens.merchantId)
               \/ /\ currentTokens.accessTokenExpiry # 0
                  /\ now >= currentTokens.accessTokenExpiry
            THEN "false" ELSE "true"
       /\ UNCHANGED <<now, storeVars, flowVars, tasks>>
    ]_vars

\* hasValidTokens answered false for a complete credential at its expiry
C8_Witness ==
  /\ last.kind = "valid"
  /\ last.value = "false"
  /\ ~Falsy(currentTokens.accessToken)
  /\ ~Falsy(currentTokens.merchantId)
  /\ now = currentTokens.accessTokenExpiry

\* an ensureValidToken call of the application was made in this step
EnsureCalled ==
  \/ last'.kind = "ensure" /\ last'.log = <<>>
  \/ Len(tasks') = Len(tasks) + 1 /\ tasks'[Len(tasks')].kind = "ensure"

\* C9 as claimed: ensureValidToken ends in one of three ways: the stored
\* token without a request, the token of the refreshed record after a
\* refresh, or the unauthenticated error without a request.
C9_ThreeOutcomes ==
  last.kind = "ensure" =>
    \/ last.result = "ok" /\ last.log = <<>>
    \/ /\ last.result = "ok"
       /\ last.log # <<>>
       /\ last.value = currentTokens.accessToken
    \/ last.result = "unauthenticated" /\ last.log = <<>>

\* C9 as amended: with a valid credential ensureValidToken returns the
\* stored token without a request; with none and a refresh token stored it
\* starts a refresh, which returns the token of the refreshed record when a
\* tier answers and fails, the store unchanged, when both tiers fail; with
\* none and no refresh token it fails as unauthenticated without a request.
\* The call itself never changes the store.
C9_EnsureValidToken ==
  [][/\ EnsureCalled =>
          /\ UNCHANGED storeVars
          /\ HasValidTokens =>
               /\ tasks' = tasks
               /\ last'.result = "ok"
               /\ last'.value = currentTokens.accessToken
               /\ last'.log = <<>>
          /\ (~HasValidTokens /\ ~Falsy(currentTokens.refreshToken)) =>
               /\ Len(tasks') = Len(tasks) + 1
               /\ tasks'[Len(tasks')].pc = "ref_v2"
               /\ tasks'[Len(tasks')].log =
                    <<Request("v2refresh", currentTokens.refreshToken)>>
          /\ (~HasValidTokens /\ Falsy(currentTokens.refreshToken)) =>
               /\ tasks' = tasks
               /\ last'.result = "unauthenticated"
               /\ last'.log = <<>>
     /\ (last'.kind = "ensure" /\ last'.log # <<>>) =>
          \/ /\ last'.result = "ok"
             /\ last'.respTier # "none"
             /\ last'.value = currentTokens'.accessToken
          \/ /\ last'.result = "unable_to_refresh"
             /\ Len(last'.log) = 2
             /\ UNCHANGED storeVars
    ]_vars

\* an ensureValidToken call refreshed an expired credential and returned the
\* new token
C9_Witness ==
  /\ last.kind = "ensure"
  /\ last.result = "ok"
  /\ last.log # <<>>
  /\ last.value = "A2"
  /\ currentTokens.accessToken = "A2"

\* the requests a data-access call has sent to the upstream API
ApiRequests(task) == {i \in DOMAIN task.log : task.log[i].to = "api"}

ApiCallOk(task) ==
  task.kind = "api" =>
    /\ Cardinality(ApiRequests(task)) <= 2
    /\ task.rsRefreshes <= 1
    /\ task.retries <= task.rsRefreshes
    /\ task.retry <=> task.rsRefreshes = 1
    /\ task.status = 401 => task.retry
    /\ ~task.retry => Cardinality(ApiRequests(task)) <= 1
    /\ Cardinality(ApiRequests(task)) = 2 => task.retries = 1
    /\ task.ctx = "rs" => task.retry /\ task.retries = 0
    /\ (task.retry /\ (task.pc = "api_wait" \/ task.ctx = "ri")) =>
         task.retries = 1
    /\ task.pc = "done" =>
         /\ task.result = "http_401" =>
              /\ task.retry
              /\ task.retries = 1
              /\ Cardinality(ApiRequests(task)) = 2
         /\ task.result \in {"refresh_error", "no_refresh_token"} =>
              /\ task.retry
              /\ task.retries = 0
              /\ Cardinality(ApiRequests(task)) = 1
         /\ (task.retry /\ task.result \in {"unauthenticated",
                                            "unable_to_refresh"}) =>
              task.retries = 1 /\ Cardinality(ApiRequests(task)) = 1

\* C7: for a call through the client, the first 401 makes the response
\* interceptor refresh the token once and, the refresh done, retry the
\* request once; a 401 to the retry is returned to the caller; a call sends
\* at most two requests to the upstream API.
C7_OneRefreshOneRetry ==
  /\ \A t \in DOMAIN tasks : ApiCallOk(tasks[t])
  /\ ApiCallOk(last)

\* a call got a 401, refreshed, retried, got a 401 again and returned it
C7_Witness ==
  /\ last.kind = "api"
  /\ last.result = "http_401"
  /\ last.rsRefreshes = 1
  /\ Cardinality(ApiRequests(last)) = 2

\* a callback has just resolved the pending flow as successful
FlowJustSucceeded ==
  /\ last.kind = "callback"
  /\ last.result = "ok"
  /\ last.delivered # NoTokens

\* a callback has just resolved the pending flow as failed
FlowJustFailed ==
  /\ last.kind = "callback"
  /\ last.result \in {"missing_code", "no_tokens", "exchange_error"}
  /\ \E s \in DOMAIN outcomes :
       outcomes[s] = <<Outcome("failure", last.result)>>

\* the listener is closed and this.server is null
TornDown == server = 0 /\ listening = {}

\* C11: after a flow was resolved as successful, the listener is eventually
\* closed and the server handle cleared; a startOAuthFlow call made once the
\* handle is cleared is accepted and starts a new session.
C11_TeardownAfterSuccess ==
  /\ FlowJustSucceeded ~> TornDown
  /\ [][(server = 0 /\ StartCalled) =>
          /\ nextSession' = nextSession + 1
          /\ server' = nextSession
          /\ state' = nextSession
          /\ last'.kind # "start"
       ]_vars

\* a second flow was accepted and listens after the first one succeeded and
\* its listener was closed
C11_Witness ==
  /\ server = 2
  /\ 2 \in listening
  /\ 1 \notin listening
  /\ promiseResolve = 2
  /\ outcomes[1] = <<Outcome("success", "")>>

\* C12: after a flow was resolved as failed, by a callback without code or
\* by a failed exchange, the listener is eventually closed and the server
\* handle cleared, so that a later startOAuthFlow call is accepted.
C12_TeardownAfterFailure == FlowJustFailed ~> TornDown

\* an accepted startOAuthFlow call whose listener reported an error
ListenFailed ==
  /\ nextSession' = nextSession + 1
  /\ outcomes'[nextSession] # <<>>

\* C13: when the listener reports a transport error the flow is rejected
\* with that error and the server handle is cleared, so that the next
\* startOAuthFlow call is not rejected as already running.
C13_ListenErrorClearsServer ==
  [][ListenFailed =>
       /\ outcomes'[nextSession] = <<Outcome("failure", "listen_error")>>
       /\ promiseResolve' = 0
       /\ promiseReject' = 0
       /\ server' = 0
       /\ nextSession \notin listening'
    ]_vars

\* a step of an exchange or of a refresh other than the arrival of a 2xx
\* answer: the call, the fall back to the legacy endpoint, the failure
FailingStep ==
  \/ /\ Len(tasks') = Len(tasks) + 1
     /\ tasks'[Len(tasks')].kind \in {"callback", "ensure", "refresh"}
  \/ \E t \in DOMAIN tasks :
       /\ Len(tasks') = Len(tasks)
       /\ \/ tasks[t].pc = "xchg_v2" /\ tasks'[t].pc = "xchg_v1"
          \/ tasks[t].pc = "ref_v2" /\ tasks'[t].pc = "ref_v1"
  \/ /\ last'.kind = "callback"
     /\ last'.result \in {"no_tokens", "exchange_error"}
  \/ /\ last'.kind \in {"ensure", "refresh"}
     /\ last'.result \in {"refresh_error", "unable_to_refresh",
                          "no_refresh_token", "unauthenticated"}

\* C14: an exchange whose two tiers failed and a refresh that failed (both
\* tiers failed, or no refresh token stored) have left every field of the
\* credential store, and the .env file, as they were: none of their steps
\* changes them.
C14_FailureKeepsStore ==
  [][FailingStep => UNCHANGED storeVars]_vars

\* a refresh failed on both tiers and the stored credential is still there
C14_Witness ==
  /\ last.kind = "refresh"
  /\ last.result = "refresh_error"
  /\ currentTokens.accessToken = "A1"
  /\ currentTokens.refreshToken = "R1"

\* C15: after a successful exchange, on either tier, the stored record, which
\* is the one delivered to the flow caller, has an access token, a merchant
\* id and two expiries later than the time of the exchange.
C15_ExchangedRecordComplete ==
  (last.kind = "callback" /\ last.result = "ok") =>
    /\ ~Falsy(currentTokens.accessToken)
    /\ ~Falsy(currentTokens.merchantId)
    /\ currentTokens.accessTokenExpiry > now
    /\ currentTokens.refreshTokenExpiry > now
    /\ last.delivered # NoTokens =>
         StoredTokens(last.delivered) = currentTokens

\* C16: a legacy answer {access_token A, merchant_id M, expires_in E,
\* refresh_token optional} received at time now is stored and delivered as
\* {A, the refresh token or "" when absent, M, now + E (now + 3600 when E is
\* absent), now + 2592000}.
C16_LegacyNormalization ==
  (/\ last.kind = "callback"
   /\ last.respTier = "v1"
   /\ ~Falsy(last.respV1.merchant_id)) =>
    LET normalized ==
          [access_token |-> last.respV1.access_token,
           refresh_token |-> IF last.respV1.refresh_token = Absent
                             THEN "" ELSE last.respV1.refresh_token,
           merchant_id |-> last.respV1.merchant_id,
           access_token_expiry |->
             IF last.respV1.expires_in = 0 THEN now + 3600
             ELSE now + last.respV1.expires_in,
           refresh_token_expiry |-> now + 2592000]
    IN /\ currentTokens = StoredTokens(normalized)
       /\ last.delivered \in {NoTokens, normalized}

\* a legacy answer without refresh token and lifetime was stored with the
\* empty refresh token and the default lifetime
C16_Witness ==
  /\ last.kind = "callback"
  /\ last.respTier = "v1"
  /\ last.respV1 = [access_token |-> "A1", refresh_token |-> Absent,
                    merchant_id |-> "M1", expires_in |-> 0]
  /\ last.delivered.refresh_token = ""
  /\ currentTokens.refreshToken = ""
  /\ currentTokens.accessTokenExpiry = now + 3600

\* a callback request was received in this step and its handler waits for
\* the provider
CallbackAccepted ==
  /\ Len(tasks') = Len(tasks) + 1
  /\ tasks'[Len(tasks')].kind = "callback"

\* C17: a callback request with a code goes on to the exchange whatever its
\* state parameter is: it is never answered 400 or refused for its state, it
\* sends the same request to /oauth/v2/token as a request with the expected
\* state, and the flow ends by what the provider answers alone.
C17_LenientState ==
  [][/\ CallbackAccepted =>
          LET task == tasks'[Len(tasks')] IN
          /\ task.cbState \in CallbackStates
          /\ [task EXCEPT !.cbState = "match"] =
               Sent([IdleTask EXCEPT !.kind = "callback", !.pc = "xchg_v2",
                                     !.code = task.code,
                                     !.cbState = "match",
                                     !.cbMid = task.cbMid],
                    "v2token", task.code)
          /\ UNCHANGED <<storeVars, flowVars>>
     /\ (last'.kind = "callback" /\ last'.code # Absent) =>
          /\ last'.log # <<>>
          /\ last'.result \in {"ok", "no_tokens", "exchange_error"}
          /\ last'.result = "ok" <=> last'.respTier # "none"
          /\ (promiseResolve # 0 /\ last'.result = "ok") =>
               outcomes'[promiseResolve] = <<Outcome("success", "")>>
          /\ (promiseReject # 0 /\ last'.result # "ok") =>
               outcomes'[promiseReject] =
                 <<Outcome("failure", last'.result)>>
    ]_vars

\* a request with a state other than the expected one resolved the flow as
\* successful
C17_Witness ==
  /\ last.kind = "callback"
  /\ last.cbState = "mismatch"
  /\ last.result = "ok"
  /\ last.delivered # NoTokens
  /\ \E s \in DOMAIN outcomes : outcomes[s] = <<Outcome("success", "")>>

\* the answer a finished callback request got
CallbackAnswerOk(task) ==
  task.kind = "callback" =>
    /\ task.status \in {200, 400, 500}
    /\ task.status = 400 <=> task.code = Absent
    /\ task.status = 200 <=>
         (task.code # Absent /\ task.respTier \in {"v2", "v1"})
    /\ task.status = 500 <=>
         /\ task.code # Absent
         /\ task.respTier = "none"
         /\ task.result \in {"no_tokens", "exchange_error"}

\* C18: a callback request is answered once, when its handler ends: 400
\* exactly when it has no code, 200 exactly when it has one and the exchange
\* succeeded, 500 exactly when it has one and the exchange failed.
C18_OneAnswer ==
  /\ \A t \in DOMAIN tasks :
       tasks[t].kind = "callback" =>
         tasks[t].status = 0 /\ tasks[t].code # Absent
  /\ CallbackAnswerOk(last)

\* a request with a code was answered 500 after both endpoints failed
C18_Witness ==
  /\ last.kind = "callback"
  /\ last.code = "c1"
  /\ last.status = 500
  /\ Len(last.log) = 2

\* C19: getMerchantInfo gets the credential handling of the calls made
\* through the client (C7): a valid credential is ensured before its
\* request, and a 401 answer makes it refresh the token once and retry the
\* request once.
C19_UniformCredentialHandling ==
  \A task \in {last} \cup {tasks[t] : t \in DOMAIN tasks} :
    /\ ApiCallOk(task)
    /\ task.kind = "merchant" => ApiCallOk([task EXCEPT !.kind = "api"])

\* the two points where the store is written: the callback handler after a
\* successful exchange, refreshAccessToken after a 2xx answer
ExchangeSuccessPoint ==
  /\ last'.kind = "callback"
  /\ last'.result = "ok"
  /\ last'.respTier \in {"v2", "v1"}

RefreshSuccessPoint ==
  \E t \in DOMAIN tasks :
    /\ tasks[t].pc \in {"ref_v2", "ref_v1"}
    /\ last'.kind \in {"ensure", "refresh"}
    /\ last'.log = tasks[t].log
    /\ last'.result = "ok"
    /\ last'.respTier = (IF tasks[t].pc = "ref_v2" THEN "v2" ELSE "v1")

\* C20: the credential store and the .env file change only in a step that
\* completes a successful exchange or a successful refresh; starting a flow,
\* a rejected start, a callback without code, a failed exchange, a failed
\* refresh, hasValidTokens, closing the listener and an ensureValidToken call
\* that finds a valid credential leave them unchanged.
C20_StoreFrame ==
  [][/\ (currentTokens' # currentTokens \/ envFile' # envFile) =>
          (ExchangeSuccessPoint \/ RefreshSuccessPoint)
     /\ (\/ StartCalled
         \/ last'.kind = "valid"
         \/ last'.kind = "callback" /\ last'.result # "ok"
         \/ last'.kind \in {"ensure", "refresh"} /\ last'.respTier = "none"
         \/ timers' < timers
         \/ closing' # closing) => UNCHANGED storeVars
    ]_vars

\* a second startOAuthFlow call was rejected and the credential stored by
\* the flow is still there
C20_Witness ==
  /\ last.kind = "start"
  /\ last.result = "already_running"
  /\ currentTokens.accessToken = "A1"
  /\ currentTokens.merchantId = "M1"

\* C21: a successful exchange or refresh stores a set access-token expiry:
\* the provider's when it gave one (the time plus expires_in on the legacy
\* tier), the time of the operation plus 3600 when it gave none; the store
\* never holds an access token without expiry.
C21_ExpiryAlwaysSet ==
  [][/\ (ExchangeSuccessPoint \/ RefreshSuccessPoint) =>
          LET given == IF last'.respTier = "v2"
                       THEN last'.respV2.access_token_expiry
                       ELSE IF last'.respV1.expires_in = 0 THEN 0
                            ELSE now + last'.respV1.expires_in
          IN currentTokens'.accessTokenExpiry =
               (IF given # 0 THEN given ELSE now + 3600)
     /\ ~Falsy(currentTokens'.accessToken) =>
          currentTokens'.accessTokenExpiry # 0
    ]_vars

\* the pending flow is resolved as successful in this step
SuccessDelivered ==
  /\ promiseResolve # 0
  /\ outcomes'[promiseResolve] # outcomes[promiseResolve]
  /\ outcomes'[promiseResolve] = <<Outcome("success", "")>>

\* C22: when the flow caller is delivered success the store holds exactly
\* the delivered record, written by the same handler before it resolved the
\* flow; the shutdown of the listener is scheduled after that, by this
\* handler, and the listener still runs at that moment.
C22_StoreBeforeResolve ==
  [][SuccessDelivered =>
       /\ last'.kind = "callback"
       /\ last'.delivered # NoTokens
       /\ currentTokens' = StoredTokens(last'.delivered)
       /\ timers' = timers + 1
       /\ UNCHANGED <<server, listening, closing>>
    ]_vars

\* the caller was delivered a record completed with the callback's merchant
\* id and the default expiries, and the store holds it
C22_Witness ==
  /\ last.kind = "callback"
  /\ last.delivered.merchant_id = "M2"
  /\ last.delivered.access_token_expiry = now + 3600
  /\ currentTokens = StoredTokens(last.delivered)
  /\ timers = 1
  /\ ~FlowPending

\* a data-access call is made in this step with a complete credential that
\* has expired and a refresh token
ExpiredCall ==
  /\ ~Falsy(currentTokens.accessToken)
  /\ ~Falsy(currentTokens.merchantId)
  /\ ~Falsy(currentTokens.refreshToken)
  /\ ~HasValidTokens
  /\ \/ Len(tasks') = Len(tasks) + 1 /\ tasks'[Len(tasks')].kind = "api"
     \/ last'.kind = "api" /\ last'.log = <<>>

\* C23: refreshes are not coalesced: a call that finds the access token
\* expired sends its own request to /oauth/v2/refresh with the stored
\* refresh token, whether or not a refresh of another call is in flight, and
\* every refresh that is answered writes the store.
C23_RefreshNotCoalesced ==
  [][/\ ExpiredCall =>
          /\ Len(tasks') = Len(tasks) + 1
          /\ tasks'[Len(tasks')].pc = "ref_v2"
          /\ tasks'[Len(tasks')].log =
               <<Request("v2refresh", currentTokens.refreshToken)>>
     /\ \A t \in DOMAIN tasks :
          (/\ Len(tasks') = Len(tasks)
           /\ tasks'[t] # tasks[t]
           /\ tasks[t].kind = "api") =>
            /\ (tasks[t].pc = "ref_v2" /\ tasks'[t].pc # "ref_v1") =>
                 currentTokens' = StoredTokens(tasks'[t].respV2)
            /\ tasks[t].pc = "ref_v1" =>
                 /\ currentTokens'.accessToken =
                      tasks'[t].respV1.access_token
                 /\ currentTokens'.accessTokenExpiry = now + 3600
    ]_vars

\* two calls wait for the answer to their own refresh request, both sent
\* with the same refresh token
C23_Witness ==
  /\ Len(tasks) = 2
  /\ tasks[1].kind = "api" /\ tasks[1].pc = "ref_v2"
  /\ tasks[2].kind = "api" /\ tasks[2].pc = "ref_v2"
  /\ tasks[1].log = <<Request("v2refresh", "R1")>>
  /\ tasks[2].log = <<Request("v2refresh", "R1")>>

\* the callback requests whose handling has begun and not ended
CallbacksInHandling == {t \in DOMAIN tasks : tasks[t].kind = "callback"}

\* C24: the handling of a callback request never overlaps the handling of
\* another: at most one callback request is between its receipt and the end
\* of its handler, so no two exchanges started by callbacks are in flight
\* together.
C24_CallbacksSerialized == Cardinality(CallbacksInHandling) <= 1

\* the merchant id of the record exchangeCodeForTokens returned to the
\* handler of a finished callback request
ExchangedMerchantId(task) ==
  IF task.respTier = "v2" THEN task.respV2.merchant_id
  ELSE task.respV1.merchant_id

\* C25: when the exchanged record has no merchant id and the callback
\* request carries one, the record stored and delivered has the callback's;
\* when the exchanged record has one, it is kept.
C25_MerchantBackfill ==
  (last.kind = "callback" /\ last.result = "ok") =>
    LET exchanged == ExchangedMerchantId(last)
        expected == IF Falsy(exchanged) /\ ~Falsy(last.cbMid)
                    THEN last.cbMid ELSE exchanged
    IN /\ currentTokens.merchantId = expected
       /\ last.delivered # NoTokens => last.delivered.merchant_id = expected

\* an answer without merchant id was completed with the callback's
C25_Witness ==
  /\ last.kind = "callback"
  /\ last.result = "ok"
  /\ last.respTier = "v2"
  /\ last.respV2.merchant_id = Absent
  /\ last.cbMid = "M2"
  /\ last.delivered.merchant_id = "M2"
  /\ currentTokens.merchantId = "M2"

\* the access token of the last refresh answer a task received
RefreshedToken(task) ==
  IF task.respTier = "v2" THEN task.respV2.access_token
  ELSE task.respV1.access_token

\* C26: when the refresh started by a 401 fails, or cannot start because no
\* refresh token is stored, the call ends with the refresh error, the
\* request is not sent again and the store is unchanged; the request is
\* retried only in a step that stored a refreshed record.
C26_FailedRefreshNoRetry ==
  [][/\ (/\ last'.kind = "api"
         /\ last'.result \in {"refresh_error", "no_refresh_token"}) =>
          /\ last'.status = 401
          /\ last'.retry
          /\ last'.retries = 0
          /\ Cardinality(ApiRequests(last')) = 1
          /\ UNCHANGED storeVars
     /\ \A t \in DOMAIN tasks :
          /\ (/\ tasks[t].kind = "api"
              /\ tasks[t].pc = "api_wait"
              /\ ~tasks[t].retry
              /\ Falsy(currentTokens.refreshToken)
              /\ last'.kind = "api"
              /\ last'.status = 401
              /\ last'.log = tasks[t].log) =>
               last'.result = "no_refresh_token"
          /\ (/\ Len(tasks') = Len(tasks)
              /\ tasks[t].kind = "api"
              /\ tasks'[t].retries > tasks[t].retries) =>
               /\ tasks[t].ctx = "rs"
               /\ tasks'[t].respTier =
                    (IF tasks[t].pc = "ref_v2" THEN "v2" ELSE "v1")
               /\ currentTokens'.accessToken = RefreshedToken(tasks'[t])
    ]_vars

\* a 401 was followed by a refresh that failed on both tiers: the call ended
\* with the refresh error after one request, the credential still stored
C26_Witness ==
  /\ last.kind = "api"
  /\ last.result = "refresh_error"
  /\ last.status = 401
  /\ last.retries = 0
  /\ Len(last.log) = 3
  /\ currentTokens.accessToken = "A1"

\* C27: a legacy refresh answer received at time now is stored as: its
\* access token; its refresh token, or else the stored one; its merchant id,
\* or else the stored one; now + expires_in (now + 3600 when absent); the
\* stored refresh expiry, or now + 2592000 when none is stored.
C27_LegacyRefreshNormalization ==
  [][(RefreshSucceeded /\ last'.respTier = "v1") =>
       LET v1Data == last'.respV1 IN
       /\ currentTokens'.accessToken = v1Data.access_token
       /\ currentTokens'.refreshToken =
            (IF Falsy(v1Data.refresh_token) THEN currentTokens.refreshToken
             ELSE v1Data.refresh_token)
       /\ currentTokens'.merchantId =
            (IF Falsy(v1Data.merchant_id) THEN currentTokens.merchantId
             ELSE v1Data.merchant_id)
       /\ currentTokens'.accessTokenExpiry =
            (IF v1Data.expires_in = 0 THEN now + 3600
             ELSE now + v1Data.expires_in)
       /\ currentTokens'.refreshTokenExpiry =
            (IF currentTokens.refreshTokenExpiry = 0 THEN now + 2592000
             ELSE currentTokens.refreshTokenExpiry)
       /\ last'.value = v1Data.access_token
    ]_vars

\* a legacy refresh answer with the access token only was stored with the
\* refresh token, the merchant id and the refresh expiry of the flow
C27_Witness ==
  /\ last.kind = "refresh"
  /\ last.result = "ok"
  /\ last.respV1 = [access_token |-> "A2", refresh_token |-> Absent,
                    merchant_id |-> Absent, expires_in |-> 0]
  /\ last.respTier = "v1"
  /\ currentTokens = [accessToken |-> "A2", refreshToken |-> "R1",
                      merchantId |-> "M1", accessTokenExpiry |-> now + 3600,
                      refreshTokenExpiry |-> 200]

\* the file with its two keys set to the values of the store
Mirrored(file, tokens) ==
  [file EXCEPT !.apiKey = tokens.accessToken,
               !.merchantId = tokens.merchantId]

\* C28: after a successful exchange or refresh a file that exists with its
\* two keys has them set to the stored values, unless the write failed and
\* left the file as it was; its other lines are unchanged; a file that does
\* not exist is not created; the operation succeeds in every case.
C28_EnvFileMirrorsStore ==
  [][(ExchangeSuccessPoint \/ RefreshSuccessPoint) =>
       /\ (envFile.exists /\ envFile.hasKeys) =>
            envFile' \in {envFile, Mirrored(envFile, currentTokens')}
       /\ ~envFile.exists => envFile' = envFile
       /\ envFile'.exists = envFile.exists
       /\ envFile'.other = envFile.other
       /\ last'.result = "ok"
    ]_vars

\* C29: a failure to launch the browser neither resolves nor rejects the
\* flow and does not stop the listener: the pending flow, its listener and
\* the requests being handled are as they were, so a callback can still
\* complete the flow.
C29_LaunchFailureNonFatal ==
  [][(last'.kind = "browser" /\ last'.result = "launch_failed") =>
       /\ UNCHANGED <<promiseResolve, promiseReject, outcomes, state, server,
                      listening, closing, timers, tasks, storeVars>>
       /\ promiseResolve # 0 =>
            /\ promiseResolve' # 0
            /\ outcomes'[promiseResolve'] = <<>>
    ]_vars

\* the launch of a flow has just failed: the flow is pending and its
\* listener runs
C29_Witness ==
  /\ last.kind = "browser"
  /\ last.result = "launch_failed"
  /\ promiseResolve # 0
  /\ promiseReject = promiseResolve
  /\ promiseResolve \in listening
  /\ outcomes[promiseResolve] = <<>>

\* C30: while a flow is pending its listener runs and this.server is its
\* server: no shutdown timer left by an earlier flow closes the listener of
\* a pending flow or clears its handle.
C30_PendingFlowListens ==
  promiseResolve # 0 =>
    /\ promiseResolve \in listening
    /\ server = promiseResolve

\* C31: once the flow is settled, as success or as failure, the handling of
\* a callback request that arrives afterwards leaves the credential store
\* as it is; so after a flow that was the first to run and whose caller was
\* delivered a failure, the store is as it was when the flow started.
C31_LateCallbackKeepsStore ==
  [][/\ (last'.kind = "callback" /\ ~FlowPending) => UNCHANGED storeVars
     /\ (/\ Len(outcomes') = 1
         /\ outcomes'[1] # <<>>
         /\ outcomes'[1][1].kind = "failure") =>
          currentTokens' = InitialTokens
    ]_vars

\* C32: the request retried after a 401 goes through the request
\* interceptor again: if the store refreshed by the 401 is valid the retry
\* is sent with the access token the store then holds, otherwise the guard
\* refreshes once more with the stored refresh token, or ends the call when
\* there is none, and a retry sent after that refresh carries the access
\* token stored by it.
C32_RetryCarriesStoredToken ==
  [][/\ \A t \in DOMAIN tasks :
          /\ (/\ Len(tasks') = Len(tasks)
              /\ tasks[t].kind = "api"
              /\ tasks'[t].retries > tasks[t].retries) =>
               /\ tasks[t].ctx = "rs"
               /\ IF HasValidTokensAt(currentTokens', now)
                  THEN /\ tasks'[t].pc = "api_wait"
                       /\ tasks'[t].log =
                            Append(tasks[t].log,
                                   Request("api", currentTokens'.accessToken))
                  ELSE /\ tasks'[t].pc = "ref_v2"
                       /\ tasks'[t].ctx = "ri"
                       /\ ~Falsy(currentTokens'.refreshToken)
                       /\ tasks'[t].log =
                            Append(tasks[t].log,
                                   Request("v2refresh",
                                           currentTokens'.refreshToken))
          /\ (/\ Len(tasks') = Len(tasks)
              /\ tasks[t].kind = "api"
              /\ tasks[t].ctx = "ri"
              /\ tasks[t].retries = 1
              /\ tasks'[t].pc = "api_wait") =>
               tasks'[t].log =
                 Append(tasks[t].log,
                        Request("api", currentTokens'.accessToken))
          /\ (/\ Len(tasks') < Len(tasks)
              /\ tasks[t].kind = "api"
              /\ tasks[t].ctx = "rs"
              /\ last'.log = tasks[t].log
              /\ last'.retries > tasks[t].retries) =>
               /\ ~HasValidTokensAt(currentTokens', now)
               /\ Falsy(currentTokens'.refreshToken)
               /\ last'.result = "unauthenticated"
    ]_vars

\* a call sent with A1 got a 401, the refresh stored A2 and the retry, sent
\* with A2, was answered
C32_Witness ==
  /\ last.kind = "api"
  /\ last.result = "ok"
  /\ last.retries = 1
  /\ Len(last.log) = 3
  /\ last.log[1] = Request("api", "A1")
  /\ last.log[3] = Request("api", "A2")
  /\ currentTokens.accessToken = "A2"

\* the store refreshed by the 401 was not valid, the guard of the retry
\* refreshed again and the retry carried the token of that second refresh
C32_WitnessGuard ==
  /\ last.kind = "api"
  /\ last.retries = 1
  /\ Len(last.log) = 4
  /\ last.log[3].to = "v2refresh"
  /\ last.log[4] = Request("api", currentTokens.accessToken)

\* C33: while the store has no access token or no merchant id, a call of a
\* data-access operation or of getMerchantInfo ends in the step of the
\* call, with "API key is required" when the access token is missing and
\* with "Merchant ID is required" otherwise, without a request to the API
\* or to the token endpoints, whether or not a refresh token is stored, and
\* the store is unchanged.
C33_MissingCredentialFailsEarly ==
  [][(Falsy(currentTokens.accessToken) \/ Falsy(currentTokens.merchantId)) =>
       /\ (Len(tasks') = Len(tasks) + 1) =>
            tasks'[Len(tasks')].kind \notin {"api", "merchant"}
       /\ (last'.kind \in {"api", "merchant"} /\ tasks' = tasks) =>
            /\ last'.log = <<>>
            /\ last'.result =
                 (IF Falsy(currentTokens.accessToken)
                  THEN "api_key_required" ELSE "merchant_id_required")
            /\ UNCHANGED storeVars
    ]_vars

\* listInventory was refused for the missing merchant id, without a
\* request, although an access token and a refresh token are stored
C33_Witness ==
  /\ last.kind = "api"
  /\ last.result = "merchant_id_required"
  /\ last.log = <<>>
  /\ currentTokens.accessToken = "A2"
  /\ currentTokens.refreshToken = "R2"
  /\ Falsy(currentTokens.merchantId)

\* a data access was refused for the missing access token
C33_WitnessNoToken ==
  /\ last.kind = "api"
  /\ last.result = "api_key_required"
  /\ last.log = <<>>
  /\ Falsy(currentTokens.accessToken)

====
